---- MODULE Spec2Model ----
(***************************************************************************)
(* Model of the NatNet client (natnet_client/nat_net_client.py): the       *)
(* session fields, the two UDP sockets, the caller thread's operations     *)
(* (connect, run_async, stop_async, update_sync, shutdown, send_command,   *)
(* request_modeldef, the protocol_version setter, the with statement) and  *)
(* the two worker threads of asynchronous mode.  The caller thread is      *)
(* thread 0; worker threads are numbered from 1 in creation order.         *)
(***************************************************************************)
EXTENDS Integers, Sequences, FiniteSets, TLC

(* ------------------------------ bounds -------------------------------- *)
MaxSockets == 4     \* socket objects that exist at the same time
MaxThreads == 2     \* thread objects that exist at the same time
MaxQueue == 2       \* datagrams waiting in one socket's receive buffer
MaxArrivals == 2    \* datagrams the network delivers in one behaviour
MaxComponents == 4  \* components of a Version that is compared
MaxComponent == 1   \* value of a component of a Version that is compared
MaxPayload == 2     \* characters of a command string that is framed
MaxDatasets == 3    \* dataset_count of a description packet that is decoded
MaxWords == 9       \* 32-bit words of a frame packet that is decoded
\* PacketBuffer: the longest data and the longest max_length of read_string
MaxBytes == 4
MaxString == 2

(* ------------------- nat_net_client.py message ids -------------------- *)
NAT_CONNECT == 0
NAT_SERVERINFO == 1
NAT_REQUEST == 2
NAT_RESPONSE == 3
NAT_REQUEST_MODELDEF == 4
NAT_MODELDEF == 5
NAT_REQUEST_FRAMEOFDATA == 6
NAT_FRAMEOFDATA == 7
NAT_KEEPALIVE == 10

(* Optional values: None is the empty sequence, Some(x) a one-element one. *)
None == <<>>
Some(x) == <<x>>
Val(o) == o[1]
NoId == 0           \* a socket or thread field holding None

(* ------------------------------ Version ------------------------------- *)
Min(a, b) == IF a < b THEN a ELSE b

RECURSIVE CompareFrom(_, _, _)
CompareFrom(c1, c2, i) ==
    IF i > Min(Len(c1), Len(c2)) THEN 0
    ELSE IF c1[i] > c2[i] THEN 1
    ELSE IF c1[i] < c2[i] THEN -1
    ELSE CompareFrom(c1, c2, i + 1)

\* Version.__compare: the zero-padded copies are built but the loop zips the
\* unpadded components, so only the common prefix is compared.
Compare(v1, v2) == CompareFrom(v1, v2, 1)

\* Version.__compare, lines 33-37: a component tuple padded with zeros to n
\* components.
Pad(c, n) == c \o [i \in 1..(n - Len(c)) |-> 0]

VersionGe(v1, v2) == Compare(v1, v2) \in {0, 1}
VersionLe(v1, v2) == Compare(v1, v2) \in {-1, 0}
VersionLt(v1, v2) == Compare(v1, v2) = -1
VersionNe(v1, v2) == Compare(v1, v2) # 0
VersionEq(v1, v2) == Compare(v1, v2) = 0

truncate(v, pos) == SubSeq(v, 1, Min(pos, Len(v)))

\* Version.major
major(v) == IF Len(v) > 0 THEN v[1] ELSE 0

\* Version.minor
minor(v) == IF Len(v) > 1 THEN v[2] ELSE 0

Digits == <<"0", "1", "2", "3", "4", "5", "6", "7", "8", "9">>
IntStr(n) == Digits[n + 1]

RECURSIVE JoinDots(_, _)
JoinDots(v, i) ==
    IF i > Len(v) THEN ""
    ELSE IF i = Len(v) THEN IntStr(v[i])
    ELSE IntStr(v[i]) \o "." \o JoinDots(v, i + 1)

\* Version.__str__
VersionStr(v) == JoinDots(v, 1)

(* ----------------------------- datagrams ------------------------------ *)
\* A datagram: size is "zero" (no byte), "short" (fewer than the 4 header
\* bytes) or "full"; id is the message id; hdr tells whether the declared
\* body length matches; whole tells whether the body holds every byte its
\* decoder reads; ver is the protocol version of a SERVERINFO; tags are the
\* type tags of the items of a MODELDEF.
Dgram(size, id, hdr, whole, ver, tags) ==
    [size |-> size, id |-> id, hdr |-> hdr, whole |-> whole, ver |-> ver, tags |-> tags]

ZeroDgram == Dgram("zero", 0, TRUE, TRUE, <<>>, <<>>)
ShortDgram == Dgram("short", 0, TRUE, TRUE, <<>>, <<>>)
ServerInfoDgram(v) == Dgram("full", NAT_SERVERINFO, TRUE, TRUE, v, <<>>)
FrameDgram == Dgram("full", NAT_FRAMEOFDATA, TRUE, TRUE, <<>>, <<>>)
ModelDefDgram(tags) == Dgram("full", NAT_MODELDEF, TRUE, TRUE, <<>>, tags)
ResponseDgram == Dgram("full", NAT_RESPONSE, FALSE, TRUE, <<>>, <<>>)

V31 == <<3, 1, 0, 0>>
V40 == <<4, 0, 0, 0>>

\* The datagrams the network may deliver to a socket of the client.
Datagrams ==
    { ZeroDgram, ShortDgram, ServerInfoDgram(V31), ServerInfoDgram(V40), FrameDgram, ModelDefDgram(<<>>) }

NoEntry == [seq |-> 0, d |-> ZeroDgram]

\* ServerInfo.read_from_buffer
ServerInfoRead(d) ==
    [application_name |-> "Motive", server_version |-> <<3, 0, 0, 0>>,
     nat_net_protocol_version |-> d.ver]

\* DataFrame.read_from_buffer: the first statement of the loop compares the
\* protocol version with MIN_VERSIONS["prefix"]; Version.__le__ raises
\* TypeError for None.  A body that ends early raises struct.error.
DataFrameRead(d, ver) ==
    IF ver = None THEN "TypeError"
    ELSE IF ~d.whole THEN "struct.error"
    ELSE "ok"

\* Items whose description decoder compares the protocol version
\* (RigidBodyDescription, SkeletonDescription through its rigid bodies,
\* ForcePlateDescription, DeviceDescription).
ItemComparesVersion(tag) == tag \in {1, 2, 3, 4}

RECURSIVE DescItems(_, _, _)
DescItems(tags, i, ver) ==
    IF i > Len(tags) THEN "ok"
    ELSE IF tags[i] \in 0..5 /\ ItemComparesVersion(tags[i]) /\ ver = None THEN "TypeError"
    ELSE DescItems(tags, i + 1, ver)

\* DataDescriptions.read_from_buffer
DataDescriptionsRead(d, ver) ==
    IF ~d.whole THEN "struct.error"
    ELSE DescItems(d.tags, 1, ver)

(* ------------------------------ state --------------------------------- *)
VARIABLES
    use_multicast,              \* NatNetClient.__use_multicast
    server_info,                \* NatNetClient.__server_info (Optional)
    current_protocol_version,   \* NatNetClient.__current_protocol_version (Optional)
    command_thread,             \* NatNetClient.__command_thread (thread id or NoId)
    data_thread,                \* NatNetClient.__data_thread
    command_socket,             \* NatNetClient.__command_socket (socket id or NoId)
    data_socket,                \* NatNetClient.__data_socket
    stop_threads,               \* NatNetClient.__stop_threads
    sockOpen,                   \* socket objects that exist and are open
    queue,                      \* receive buffer of every socket object
    arrivals,                   \* datagrams delivered by the network so far
    delivered,                  \* per socket: arrival number of the last datagram handed to a handler
    timeout,                    \* per socket: the value of its last settimeout, "0.0" or "0.1"
    worker,                     \* per worker thread: state, socket and keep-alive argument
    ps,                         \* per thread: the running call of __process_socket
    op,                         \* the caller thread's current (or last) operation
    pc,                         \* the caller thread's position in it ("idle": none running)
    result,                     \* how the last finished operation ended ("ok" or the error raised)
    scope,                      \* the with statement: out, entering, body, exiting, left
    loc,                        \* the running operation's locals: the setter's desired version and
                                \* command index, and the protocol version at its call; for
                                \* update_sync, the arrivals at its call
    reqlog,                     \* NAT_REQUEST commands sent by the running setter call (or the
                                \* last one, if it sent them all), each with the protocol
                                \* version at the moment it was sent
    call                        \* a call the application makes of a function of the package that
                                \* needs no client (a Version comparison, a decoder, the framing
                                \* of a request): its name, arguments and result

clientVars == <<use_multicast, server_info, current_protocol_version, command_thread,
                data_thread, command_socket, data_socket, stop_threads>>
netVars == <<sockOpen, queue, arrivals, delivered, timeout>>
threadVars == <<worker, ps>>
callerVars == <<op, pc, result, scope, loc, reqlog>>
vars == <<clientVars, netVars, threadVars, callerVars, call>>

Threads == 0..MaxThreads
Workers == 1..MaxThreads
Sockets == 1..MaxSockets

IdleFrame ==
    [pc |-> "idle", sock |-> NoId, ka |-> FALSE, cur |-> NoEntry, ret |-> FALSE,
     exc |-> "", gate |-> FALSE, dec |-> FALSE, ev |-> "none"]

NoWorker == [state |-> "unused", sock |-> NoId, ka |-> FALSE]

NoLoc == [desired |-> <<>>, i |-> 0, seen |-> 0, before |-> <<>>]

\* No call of such a function is made.
NoCall == [fn |-> "none", args |-> <<>>, out |-> <<>>, done |-> FALSE]

\* NatNetClient.__init__
NewClient ==
    /\ use_multicast \in BOOLEAN
    /\ server_info = None
    /\ current_protocol_version = None
    /\ command_thread = NoId
    /\ data_thread = NoId
    /\ command_socket = NoId
    /\ data_socket = NoId
    /\ stop_threads = FALSE
    /\ sockOpen = {}
    /\ queue = [s \in Sockets |-> <<>>]
    /\ arrivals = 0
    /\ delivered = [s \in Sockets |-> 0]
    /\ timeout = [s \in Sockets |-> "0.0"]
    /\ worker = [t \in Workers |-> NoWorker]
    /\ ps = [t \in Threads |-> IdleFrame]
    /\ op = "none"
    /\ pc = "idle"
    /\ result = "none"
    /\ scope = "out"
    /\ loc = NoLoc
    /\ reqlog = <<>>

\* The application has constructed the client and calls its methods only.
Init == NewClient /\ call = NoCall

(* --------------------------- properties ------------------------------- *)
\* NatNetClient.connected
connected == command_socket # NoId /\ data_socket # NoId /\ server_info # None

\* NatNetClient.running_asynchronously
running_asynchronously == command_thread # NoId \/ data_thread # NoId

\* NatNetClient.can_change_protocol_version
can_change_protocol_version ==
    IF server_info # None
    THEN VersionGe(Val(server_info).nat_net_protocol_version, <<4>>) /\ ~use_multicast
    ELSE FALSE


(* ----------------------- socket and thread objects ------------------- *)
\* Sockets that something still refers to: the two fields and the argument
\* of every running worker thread (a thread drops its arguments when its
\* function ends).
Live(cs, ds, wk) ==
    ({cs, ds} \cup {wk[t].sock : t \in {u \in Workers : wk[u].state = "running"}}) \ {NoId}

\* The runtime closes a socket object when the last reference to it goes
\* away; its receive buffer goes with it.
StillOpen(open, cs, ds, wk) == open \cap Live(cs, ds, wk)
Kept(f, open, empty) == [s \in Sockets |-> IF s \in open THEN f[s] ELSE empty]

LeastOf(S) == CHOOSE x \in S : \A y \in S : x <= y

\* A new socket object, a new thread object: the least identity not in use.
FreeSockets == Sockets \ sockOpen
FreeThreads == {t \in Workers : worker[t].state # "running" /\ t \notin {command_thread, data_thread}}

(* ------------------------------ sending ------------------------------- *)
\* send_request: the payload is forced for some command ids.
SendPayload(command, command_str) ==
    IF command \in {NAT_REQUEST_MODELDEF, NAT_REQUEST_FRAMEOFDATA, NAT_KEEPALIVE} THEN ""
    ELSE IF command = NAT_CONNECT THEN "Ping"
    ELSE command_str

\* send_request: self.__command_socket.sendto(...).  The field is read when
\* the datagram is sent: None has no sendto, a closed socket refuses.
SendOutcome ==
    IF command_socket = NoId THEN "AttributeError"
    ELSE IF command_socket \notin sockOpen THEN "OSError"
    ELSE "ok"

\* send_request, line 170, called by send_command: sendto on an open socket
\* sends the datagram (sent) or fails for a reason outside the client, such
\* as an unreachable network: OSError.
SendResult(sent) ==
    IF SendOutcome # "ok" THEN SendOutcome
    ELSE IF sent THEN "ok"
    ELSE "OSError"

(* ------------------- __process_socket, __process_message --------------- *)
Alive(t) == IF t = 0 THEN TRUE ELSE worker[t].state = "running"

\* __process_socket without lines 128-129: no KEEPALIVE is sent before the
\* receive.  C26_KeepAliveOnCommandPath fails on it.
EnterWithoutKeepAlive(sock, ka) ==
    [IdleFrame EXCEPT !.pc = "recv", !.sock = sock, !.ka = ka]

\* The frame of a call __process_socket(in_socket, send_keep_alive=ka).
Enter(sock, ka) ==
    [IdleFrame EXCEPT !.pc = IF ka THEN "ka" ELSE "recv", !.sock = sock, !.ka = ka]

Returned(f, r) == [IdleFrame EXCEPT !.pc = "ret", !.ret = r]
Raised(f, e) == [IdleFrame EXCEPT !.pc = "exc", !.exc = e, !.gate = f.gate, !.dec = f.dec]

\* __process_socket, lines 128-129: self.send_request(self.NAT_KEEPALIVE)
PsKeepAlive(t) ==
    /\ Alive(t)
    /\ ps[t].pc = "ka"
    /\ ps' = [ps EXCEPT ![t] = IF SendOutcome = "ok" THEN [@ EXCEPT !.pc = "recv"]
                                ELSE Raised(@, SendOutcome)]
    /\ UNCHANGED <<call, clientVars, netVars, worker, callerVars>>

\* A receive that returns the newest datagram waiting instead of the oldest.
\* C9_PerSocketOrder fails on it.
RecvNewest(q) == q[Len(q)]

\* The datagram recvfrom returns: the oldest one waiting.
RecvPick(q) == Head(q)
RecvRest(q) == Tail(q)

\* __process_socket, lines 130-137: recvfrom; an empty receive buffer raises
\* BlockingIOError or socket.timeout, which is swallowed; a datagram of
\* length 0 is not processed; either way the call returns False.
PsRecv(t) ==
    /\ Alive(t)
    /\ ps[t].pc = "recv"
    /\ LET s == ps[t].sock IN
        IF s = NoId THEN
            /\ ps' = [ps EXCEPT ![t] = Raised(@, "AttributeError")]
            /\ UNCHANGED queue
        ELSE IF s \notin sockOpen THEN
            /\ ps' = [ps EXCEPT ![t] = Raised(@, "OSError")]
            /\ UNCHANGED queue
        ELSE IF queue[s] = <<>> THEN
            /\ ps' = [ps EXCEPT ![t] = Returned(@, FALSE)]
            /\ UNCHANGED queue
        ELSE
            /\ queue' = [queue EXCEPT ![s] = RecvRest(@)]
            /\ ps' = [ps EXCEPT ![t] = IF RecvPick(queue[s]).d.size = "zero"
                                        THEN Returned(@, FALSE)
                                        ELSE [@ EXCEPT !.pc = "msg", !.cur = RecvPick(queue[s])]]
    /\ UNCHANGED <<call, clientVars, sockOpen, arrivals, delivered, timeout, worker, callerVars>>

\* __process_socket, line 130: recvfrom on an open socket of an established
\* session fails for a reason outside the client (the network is down, the
\* peer's port is unreachable): OSError, which the except clause of line 134
\* does not catch.
PsRecvError(t) ==
    /\ Alive(t)
    /\ ps[t].pc = "recv"
    /\ ps[t].sock \in sockOpen
    /\ connected
    /\ ps' = [ps EXCEPT ![t] = Raised(@, "OSError")]
    /\ UNCHANGED <<call, clientVars, netVars, worker, callerVars>>

\* __process_message, lines 149-150: the warning of the handshake gate.
GateWarns(d) == d.id # NAT_SERVERINFO /\ current_protocol_version = None

\* __process_message, lines 151-156: what is done with a message that is not
\* SERVERINFO: "frame" or "desc" names the decoder run on it, "none" none.
Dispatch(d) ==
    IF d.id = NAT_FRAMEOFDATA THEN "frame"
    ELSE IF d.id = NAT_MODELDEF THEN "desc"
    ELSE "none"

\* __process_message, lines 140-156, up to the call of the event.
PsMessage(t) ==
    /\ Alive(t)
    /\ ps[t].pc = "msg"
    /\ LET d == ps[t].cur.d
           f == [ps[t] EXCEPT !.gate = GateWarns(d)]
           r == IF Dispatch(d) = "frame" THEN DataFrameRead(d, current_protocol_version)
                ELSE DataDescriptionsRead(d, current_protocol_version)
       IN
        IF d.size = "short" THEN
            /\ ps' = [ps EXCEPT ![t] = Raised(@, "struct.error")]
            /\ UNCHANGED server_info
        ELSE IF d.id = NAT_SERVERINFO THEN
            IF ~d.whole THEN
                /\ ps' = [ps EXCEPT ![t] = Raised(@, "struct.error")]
                /\ UNCHANGED server_info
            ELSE
                /\ server_info' = Some(ServerInfoRead(d))
                /\ ps' = [ps EXCEPT ![t].pc = "si2"]
        ELSE IF Dispatch(d) = "none" THEN
            /\ ps' = [ps EXCEPT ![t] = Returned(f, TRUE)]
            /\ UNCHANGED server_info
        ELSE
            /\ ps' = [ps EXCEPT ![t] = IF r = "ok"
                                        THEN [f EXCEPT !.pc = "call", !.dec = TRUE, !.ev = Dispatch(d)]
                                        ELSE Raised([f EXCEPT !.dec = TRUE], r)]
            /\ UNCHANGED server_info
    /\ UNCHANGED <<call, use_multicast, current_protocol_version, command_thread, data_thread,
                   command_socket, data_socket, stop_threads, netVars, worker,
                   callerVars>>

\* __process_message, line 147
PsSetVersion(t) ==
    /\ Alive(t)
    /\ ps[t].pc = "si2"
    /\ IF server_info = None THEN
            /\ ps' = [ps EXCEPT ![t] = Raised(@, "AttributeError")]
            /\ UNCHANGED current_protocol_version
       ELSE
            /\ current_protocol_version' = Some(Val(server_info).nat_net_protocol_version)
            /\ ps' = [ps EXCEPT ![t] = Returned(@, TRUE)]
    /\ UNCHANGED <<call, use_multicast, server_info, command_thread, data_thread, command_socket,
                   data_socket, stop_threads, netVars, worker, callerVars>>

\* Event.call: the handlers are invoked with the decoded record ...
PsHandlerStart(t) ==
    /\ Alive(t)
    /\ ps[t].pc = "call"
    /\ ps' = [ps EXCEPT ![t].pc = "handler"]
    /\ delivered' = [delivered EXCEPT ![ps[t].sock] = ps[t].cur.seq]
    /\ UNCHANGED <<call, clientVars, sockOpen, queue, arrivals, timeout, worker, callerVars>>

\* ... and return; __process_socket then returns True.
PsHandlerReturn(t) ==
    /\ Alive(t)
    /\ ps[t].pc = "handler"
    /\ ps' = [ps EXCEPT ![t] = Returned(@, TRUE)]
    /\ UNCHANGED <<call, clientVars, netVars, worker, callerVars>>

\* Thread t calls __process_socket on the command socket: the caller inside
\* the loop of connect() or the second loop of update_sync(), or the command
\* worker.
OnCommandPath(t) == IF t = 0 THEN pc \in {"c_ps", "us_cmd"} ELSE t = command_thread

(* --------------------------- worker threads --------------------------- *)
\* __socket_thread_func: while not self.__stop_threads: __process_socket(...)
WorkerLoop(t) ==
    /\ worker[t].state = "running"
    /\ ps[t].pc \in {"idle", "ret"}
    /\ IF stop_threads THEN
            /\ worker' = [worker EXCEPT ![t] = [NoWorker EXCEPT !.state = "dead"]]
            /\ ps' = [ps EXCEPT ![t] = IdleFrame]
       ELSE
            /\ ps' = [ps EXCEPT ![t] = Enter(worker[t].sock, worker[t].ka)]
            /\ UNCHANGED worker
    /\ sockOpen' = StillOpen(sockOpen, command_socket, data_socket, worker')
    /\ queue' = Kept(queue, sockOpen', <<>>)
    /\ delivered' = Kept(delivered, sockOpen', 0)
    /\ timeout' = Kept(timeout, sockOpen', "0.0")
    /\ UNCHANGED <<call, clientVars, arrivals, callerVars>>

\* An error raised in __process_socket leaves __socket_thread_func: the
\* thread ends.
WorkerRaise(t) ==
    /\ worker[t].state = "running"
    /\ ps[t].pc = "exc"
    /\ worker' = [worker EXCEPT ![t] = [NoWorker EXCEPT !.state = "dead"]]
    /\ ps' = [ps EXCEPT ![t] = IdleFrame]
    /\ sockOpen' = StillOpen(sockOpen, command_socket, data_socket, worker')
    /\ queue' = Kept(queue, sockOpen', <<>>)
    /\ delivered' = Kept(delivered, sockOpen', 0)
    /\ timeout' = Kept(timeout, sockOpen', "0.0")
    /\ UNCHANGED <<call, clientVars, arrivals, callerVars>>

(* ----------------------------- environment ---------------------------- *)
\* The network delivers a datagram to an open socket of the client.
Arrive(s, d) ==
    /\ s \in sockOpen
    /\ arrivals < MaxArrivals
    /\ Len(queue[s]) < MaxQueue
    /\ arrivals' = arrivals + 1
    /\ queue' = [queue EXCEPT ![s] = Append(@, [seq |-> arrivals + 1, d |-> d])]
    /\ UNCHANGED <<call, clientVars, sockOpen, delivered, timeout, threadVars, callerVars>>

(* ---------------------- the caller thread: framing -------------------- *)
\* An operation can be called when none is running and the with statement
\* is not inside __enter__ or __exit__.
CanCall == pc = "idle" /\ scope \in {"out", "body", "left"}

ScopeAtCall == IF scope = "left" THEN "out" ELSE scope

\* Operation name ends with outcome res while the with statement is in
\* state sc.  __enter__ that raises leaves the with statement without
\* __exit__; an error in the body runs __exit__, that is shutdown(), and
\* propagates afterwards.
EndOpAs(name, sc, res) ==
    IF sc = "entering" THEN
        /\ op' = name /\ pc' = "idle" /\ result' = res
        /\ scope' = IF res = "ok" THEN "body" ELSE "left"
    ELSE IF sc = "body" /\ res # "ok" THEN
        /\ op' = "exit" /\ pc' = "sa_chk" /\ result' = res /\ scope' = "exiting"
    ELSE IF sc = "exiting" THEN
        /\ op' = name /\ pc' = "idle" /\ scope' = "left"
        /\ result' = IF res = "ok" THEN result ELSE res
    ELSE
        /\ op' = name /\ pc' = "idle" /\ result' = res /\ scope' = sc

EndOp(res) == EndOpAs(op, scope, res)

\* An operation that ends in the step that calls it.
Instant(name, res) == EndOpAs(name, ScopeAtCall, res)

Begin(name, p) ==
    /\ op' = name /\ pc' = p /\ result' = "none" /\ scope' = ScopeAtCall

\* An error raised by __process_socket propagates out of connect() and
\* update_sync().
CallerRaise ==
    /\ pc \in {"c_ps", "us_data", "us_cmd"}
    /\ ps[0].pc = "exc"
    /\ ps' = [ps EXCEPT ![0] = IdleFrame]
    /\ EndOp(ps[0].exc)
    /\ loc' = NoLoc
    /\ UNCHANGED <<call, clientVars, netVars, worker, reqlog>>

(* ------------------------------ connect ------------------------------- *)
ConnectStart(sc) ==
    /\ ~connected => Cardinality(FreeSockets) >= 2
    /\ IF connected THEN EndOpAs("connect", sc, "ok")
       ELSE op' = "connect" /\ pc' = "c_data" /\ result' = "none" /\ scope' = sc
    /\ UNCHANGED <<call, clientVars, netVars, threadVars, loc, reqlog>>

\* connect(), line 181
Connect == CanCall /\ ConnectStart(ScopeAtCall)

\* connect(), line 182: __create_data_socket; bind may fail
ConnectCreateData ==
    /\ pc = "c_data"
    /\ \E bound \in BOOLEAN :
        IF bound THEN
            /\ data_socket' = LeastOf(FreeSockets)
            /\ sockOpen' = StillOpen(sockOpen \cup {data_socket'}, command_socket, data_socket', worker)
            /\ queue' = Kept(queue, sockOpen', <<>>)
            /\ delivered' = Kept(delivered, sockOpen', 0)
            /\ timeout' = [Kept(timeout, sockOpen', "0.0") EXCEPT ![data_socket'] = "0.0"]
            /\ pc' = "c_cmd"
            /\ UNCHANGED <<op, result, scope>>
        ELSE
            /\ EndOp("NatNetNetworkError")
            /\ UNCHANGED <<sockOpen, queue, delivered, timeout, data_socket>>
    /\ UNCHANGED <<call, use_multicast, server_info, current_protocol_version, command_thread,
                   data_thread, command_socket, stop_threads, arrivals,
                   threadVars, loc, reqlog>>

\* connect(), line 183: __create_command_socket; bind may fail
ConnectCreateCommand ==
    /\ pc = "c_cmd"
    /\ \E bound \in BOOLEAN :
        IF bound THEN
            /\ command_socket' = LeastOf(FreeSockets)
            /\ sockOpen' = StillOpen(sockOpen \cup {command_socket'}, command_socket', data_socket, worker)
            /\ queue' = Kept(queue, sockOpen', <<>>)
            /\ delivered' = Kept(delivered, sockOpen', 0)
            /\ timeout' = [Kept(timeout, sockOpen', "0.0") EXCEPT ![command_socket'] = "0.0"]
            /\ pc' = "c_send"
            /\ UNCHANGED <<op, result, scope>>
        ELSE
            /\ EndOp("NatNetNetworkError")
            /\ UNCHANGED <<sockOpen, queue, delivered, timeout, command_socket>>
    /\ UNCHANGED <<call, use_multicast, server_info, current_protocol_version, command_thread,
                   data_thread, data_socket, stop_threads, arrivals,
                   threadVars, loc, reqlog>>

\* connect(), line 186: self.send_request(self.NAT_CONNECT)
ConnectSend ==
    /\ pc = "c_send"
    /\ IF SendOutcome = "ok" THEN pc' = "c_loop" /\ UNCHANGED <<op, result, scope>>
       ELSE EndOp(SendOutcome)
    /\ UNCHANGED <<call, clientVars, netVars, threadVars, loc, reqlog>>

\* connect() without the wait of lines 189-195: it returns once CONNECT has
\* been sent.  C2_Handshake fails on it.
ConnectWithoutWait ==
    /\ pc = "c_loop"
    /\ EndOp("ok")
    /\ UNCHANGED <<call, clientVars, netVars, threadVars, loc, reqlog>>

\* connect(), lines 189-191: while self.__server_info is None: __process_socket
ConnectLoop ==
    /\ pc = "c_loop"
    /\ IF server_info = None THEN
            /\ ps' = [ps EXCEPT ![0] = Enter(command_socket, ~use_multicast)]
            /\ pc' = "c_ps"
            /\ UNCHANGED <<op, result, scope>>
       ELSE
            /\ EndOp("ok")
            /\ UNCHANGED ps
    /\ UNCHANGED <<call, clientVars, netVars, worker, loc, reqlog>>

ConnectPolled ==
    /\ pc = "c_ps"
    /\ ps[0].pc = "ret"
    /\ ps' = [ps EXCEPT ![0] = IdleFrame]
    /\ pc' = "c_chk"
    /\ UNCHANGED <<call, clientVars, netVars, worker, op, result, scope, loc, reqlog>>

\* The timeout check without line 193: TimeoutError is raised with the
\* sockets left as they are.  C3_TimeoutShutsDown fails on it.
ConnectCheckWithoutShutdown ==
    /\ pc = "c_chk"
    /\ \E elapsed \in BOOLEAN :
        IF server_info = None /\ elapsed THEN EndOp("TimeoutError")
        ELSE pc' = "c_loop" /\ UNCHANGED <<op, result, scope>>
    /\ UNCHANGED <<call, clientVars, netVars, threadVars, loc, reqlog>>

\* connect(), lines 192-195: the timeout check; on timeout shutdown() runs
\* inside connect() and TimeoutError is raised after it.
ConnectCheck ==
    /\ pc = "c_chk"
    /\ \E elapsed \in BOOLEAN :
        pc' = IF server_info = None /\ elapsed THEN "sa_chk" ELSE "c_loop"
    /\ UNCHANGED <<call, clientVars, netVars, threadVars, op, result, scope, loc, reqlog>>

(* ----------------------- stop_async and shutdown ---------------------- *)
\* shutdown(), line 234
Shutdown ==
    /\ CanCall
    /\ Begin("shutdown", "sa_chk")
    /\ UNCHANGED <<call, clientVars, netVars, threadVars, loc, reqlog>>

\* stop_async() called by the application
StopAsync ==
    /\ CanCall
    /\ Begin("stop_async", "sa_chk")
    /\ UNCHANGED <<call, clientVars, netVars, threadVars, loc, reqlog>>

\* stop_async() has finished: it returns to the application or to shutdown().
AfterStop ==
    IF op = "stop_async" THEN EndOp("ok")
    ELSE pc' = "sd_close" /\ UNCHANGED <<op, result, scope>>

\* stop_async(), lines 216-217
StopCheck ==
    /\ pc = "sa_chk"
    /\ IF running_asynchronously THEN
            /\ stop_threads' = TRUE
            /\ pc' = "sa_join_c"
            /\ UNCHANGED <<op, result, scope>>
       ELSE
            /\ AfterStop
            /\ UNCHANGED stop_threads
    /\ UNCHANGED <<call, use_multicast, server_info, current_protocol_version, command_thread,
                   data_thread, command_socket, data_socket, netVars, threadVars, loc, reqlog>>

\* Thread.join returns when the thread has ended.
Joined(t) == IF t = NoId THEN TRUE ELSE worker[t].state = "dead"

\* stop_async(), lines 218-219
JoinCommand ==
    /\ pc = "sa_join_c"
    /\ Joined(command_thread)
    /\ pc' = "sa_join_d"
    /\ UNCHANGED <<call, clientVars, netVars, threadVars, op, result, scope, loc, reqlog>>

\* stop_async(), lines 220-221
JoinData ==
    /\ pc = "sa_join_d"
    /\ Joined(data_thread)
    /\ pc' = "sa_drop"
    /\ UNCHANGED <<call, clientVars, netVars, threadVars, op, result, scope, loc, reqlog>>

\* stop_async(), lines 222-224: drop the handles, settimeout(0.0) on both
\* sockets (None has no settimeout)
StopDrop ==
    /\ pc = "sa_drop"
    /\ command_thread' = NoId
    /\ data_thread' = NoId
    /\ worker' = [t \in Workers |-> IF t \in {command_thread, data_thread} THEN NoWorker ELSE worker[t]]
    /\ IF data_socket = NoId THEN
            /\ EndOp("AttributeError")
            /\ UNCHANGED timeout
       ELSE IF command_socket = NoId THEN
            /\ EndOp("AttributeError")
            /\ timeout' = [timeout EXCEPT ![data_socket] = "0.0"]
       ELSE
            /\ AfterStop
            /\ timeout' = [timeout EXCEPT ![data_socket] = "0.0", ![command_socket] = "0.0"]
    /\ UNCHANGED <<call, use_multicast, server_info, current_protocol_version, command_socket,
                   data_socket, stop_threads, sockOpen, queue, arrivals, delivered, ps, loc, reqlog>>

\* shutdown() without the assignment of None to __server_info in line 239.
\* C4_Shutdown fails on it.
ShutdownCloseKeepsInfo ==
    /\ pc = "sd_close"
    /\ sockOpen' = sockOpen \ {command_socket, data_socket}
    /\ queue' = Kept(queue, sockOpen', <<>>)
    /\ delivered' = Kept(delivered, sockOpen', 0)
    /\ timeout' = Kept(timeout, sockOpen', "0.0")
    /\ command_socket' = NoId
    /\ data_socket' = NoId
    /\ EndOp(IF op = "connect" THEN "TimeoutError" ELSE "ok")
    /\ UNCHANGED <<call, use_multicast, server_info, current_protocol_version, command_thread,
                   data_thread, stop_threads, arrivals, threadVars, loc, reqlog>>

\* shutdown(), lines 235-239: close both sockets, unset the three fields;
\* connect() raises TimeoutError after it.
ShutdownClose ==
    /\ pc = "sd_close"
    /\ sockOpen' = sockOpen \ {command_socket, data_socket}
    /\ queue' = Kept(queue, sockOpen', <<>>)
    /\ delivered' = Kept(delivered, sockOpen', 0)
    /\ timeout' = Kept(timeout, sockOpen', "0.0")
    /\ command_socket' = NoId
    /\ data_socket' = NoId
    /\ server_info' = None
    /\ EndOp(IF op = "connect" THEN "TimeoutError" ELSE "ok")
    /\ UNCHANGED <<call, use_multicast, current_protocol_version, command_thread, data_thread,
                   stop_threads, arrivals, threadVars, loc, reqlog>>

(* ------------------------------ run_async ----------------------------- *)
\* run_async() without the reset of __stop_threads in line 199.
\* C8_WorkerCancellation fails on it.
RunAsyncKeepsFlag ==
    /\ CanCall
    /\ IF running_asynchronously THEN Instant("run_async", "ok")
       ELSE /\ Cardinality(FreeThreads) >= 2
            /\ IF data_socket = NoId \/ command_socket = NoId
               THEN Instant("run_async", "AttributeError")
               ELSE Begin("run_async", "ra_data")
    /\ timeout' = IF running_asynchronously \/ data_socket = NoId THEN timeout
                  ELSE IF command_socket = NoId THEN [timeout EXCEPT ![data_socket] = "0.1"]
                  ELSE [timeout EXCEPT ![data_socket] = "0.1", ![command_socket] = "0.1"]
    /\ UNCHANGED <<call, clientVars, sockOpen, queue, arrivals, delivered, threadVars, loc, reqlog>>

\* run_async(), lines 198-203
RunAsync ==
    /\ CanCall
    /\ IF running_asynchronously THEN
            /\ Instant("run_async", "ok")
            /\ UNCHANGED <<stop_threads, timeout>>
       ELSE
            /\ Cardinality(FreeThreads) >= 2
            /\ stop_threads' = FALSE
            /\ IF data_socket = NoId THEN
                    /\ Instant("run_async", "AttributeError")
                    /\ UNCHANGED timeout
               ELSE IF command_socket = NoId THEN
                    /\ Instant("run_async", "AttributeError")
                    /\ timeout' = [timeout EXCEPT ![data_socket] = "0.1"]
               ELSE
                    /\ Begin("run_async", "ra_data")
                    /\ timeout' = [timeout EXCEPT ![data_socket] = "0.1", ![command_socket] = "0.1"]
    /\ UNCHANGED <<call, use_multicast, server_info, current_protocol_version, command_thread,
                   data_thread, command_socket, data_socket, sockOpen, queue, arrivals, delivered,
                   threadVars, loc, reqlog>>

\* run_async(), lines 206-207
StartData ==
    /\ pc = "ra_data"
    /\ data_thread' = LeastOf(FreeThreads)
    /\ worker' = [worker EXCEPT ![LeastOf(FreeThreads)] =
                    [state |-> "running", sock |-> data_socket, ka |-> FALSE]]
    /\ pc' = "ra_cmd"
    /\ UNCHANGED <<call, use_multicast, server_info, current_protocol_version, command_thread,
                   command_socket, data_socket, stop_threads, netVars, ps, op, result,
                   scope, loc, reqlog>>

\* run_async() that starts its second thread on the data socket as well.
\* C29_OneWorkerPerSocket fails on it.
StartCommandOnDataSocket ==
    /\ pc = "ra_cmd"
    /\ command_thread' = LeastOf(FreeThreads)
    /\ worker' = [worker EXCEPT ![LeastOf(FreeThreads)] =
                    [state |-> "running", sock |-> data_socket, ka |-> ~use_multicast]]
    /\ EndOp("ok")
    /\ UNCHANGED <<call, use_multicast, server_info, current_protocol_version, data_thread,
                   command_socket, data_socket, stop_threads, netVars, ps, loc, reqlog>>

\* run_async(), lines 210-213
StartCommand ==
    /\ pc = "ra_cmd"
    /\ command_thread' = LeastOf(FreeThreads)
    /\ worker' = [worker EXCEPT ![LeastOf(FreeThreads)] =
                    [state |-> "running", sock |-> command_socket, ka |-> ~use_multicast]]
    /\ EndOp("ok")
    /\ UNCHANGED <<call, use_multicast, server_info, current_protocol_version, data_thread,
                   command_socket, data_socket, stop_threads, netVars, ps, loc, reqlog>>

(* ----------------------------- update_sync ---------------------------- *)
\* update_sync() without the assertion of line 227.  C6_ModeViolation fails
\* on it.
UpdateSyncWithoutAssert ==
    /\ CanCall
    /\ Begin("update_sync", "us_data")
    /\ ps' = [ps EXCEPT ![0] = Enter(data_socket, FALSE)]
    /\ loc' = [NoLoc EXCEPT !.seen = arrivals]
    /\ UNCHANGED <<call, clientVars, netVars, worker, reqlog>>

\* update_sync(), line 227 and the first call of line 228
UpdateSync ==
    /\ CanCall
    /\ IF running_asynchronously THEN
            /\ Instant("update_sync", "AssertionError")
            /\ UNCHANGED <<ps, loc>>
       ELSE
            /\ Begin("update_sync", "us_data")
            /\ ps' = [ps EXCEPT ![0] = Enter(data_socket, FALSE)]
            /\ loc' = [NoLoc EXCEPT !.seen = arrivals]
    /\ UNCHANGED <<call, clientVars, netVars, worker, reqlog>>

\* update_sync(), lines 228-229: while self.__process_socket(data_socket)
SyncData ==
    /\ pc = "us_data"
    /\ ps[0].pc = "ret"
    /\ IF ps[0].ret THEN
            /\ ps' = [ps EXCEPT ![0] = Enter(data_socket, FALSE)]
            /\ UNCHANGED pc
       ELSE
            /\ ps' = [ps EXCEPT ![0] = Enter(command_socket, ~use_multicast)]
            /\ pc' = "us_cmd"
    /\ UNCHANGED <<call, clientVars, netVars, worker, op, result, scope, loc, reqlog>>

\* update_sync(), lines 230-231: while self.__process_socket(command_socket, ...)
SyncCommand ==
    /\ pc = "us_cmd"
    /\ ps[0].pc = "ret"
    /\ IF ps[0].ret THEN
            /\ ps' = [ps EXCEPT ![0] = Enter(command_socket, ~use_multicast)]
            /\ UNCHANGED <<op, pc, result, scope, loc>>
       ELSE
            /\ ps' = [ps EXCEPT ![0] = IdleFrame]
            /\ EndOp("ok")
            /\ loc' = NoLoc
    /\ UNCHANGED <<call, clientVars, netVars, worker, reqlog>>


(* --------------------- send_command, request_modeldef ----------------- *)
\* Command strings the application passes to send_command.
CommandStrings == {"TimelinePlay"}

\* send_command(): NatNetError unless connected, else send_request(NAT_REQUEST, ...)
SendCommandOutcome(sent) == IF ~connected THEN "NatNetError" ELSE SendResult(sent)

\* send_request returns what sendto returns: the number of bytes sent.
ReturnCode(command, command_str) == 4 + Len(SendPayload(command, command_str)) + 1

SendCommand(command_str) ==
    /\ CanCall
    /\ \E sent \in BOOLEAN : Instant("send_command", SendCommandOutcome(sent))
    /\ UNCHANGED <<call, clientVars, netVars, threadVars, loc, reqlog>>

\* request_modeldef()
RequestModeldef ==
    /\ CanCall
    /\ Instant("request_modeldef", SendOutcome)
    /\ UNCHANGED <<call, clientVars, netVars, threadVars, loc, reqlog>>

(* ---------------------- the protocol_version setter ------------------- *)
\* Versions the application assigns to protocol_version.
DesiredVersions == {<<3, 0>>}

\* The commands sent after the version change, lines 280-283.
Recovery ==
    <<"TimelinePlay", "TimelinePlay", "TimelineStop", "SetPlaybackCurrentFrame,0", "TimelineStop">>

\* The entry the setter's command adds to reqlog: the string sent and the
\* protocol version at the moment it is sent.
Logged(command_str) ==
    Append(reqlog, [str |-> SendPayload(NAT_REQUEST, command_str), ver |-> current_protocol_version])

\* The setter without the check of lines 272-273.
\* C11_VersionChangePermission fails on it.
SetVersionUnchecked(desired_version) ==
    /\ CanCall
    /\ IF current_protocol_version = None THEN
            /\ Instant("set_version", "AttributeError")
            /\ UNCHANGED loc
       ELSE IF VersionNe(truncate(desired_version, 2), truncate(Val(current_protocol_version), 2)) THEN
            /\ Begin("set_version", "pv_bitstream")
            /\ loc' = [NoLoc EXCEPT !.desired = truncate(desired_version, 2),
                                    !.before = current_protocol_version]
       ELSE
            /\ Instant("set_version", "ok")
            /\ UNCHANGED loc
    /\ reqlog' = <<>>
    /\ UNCHANGED <<call, clientVars, netVars, threadVars>>

\* protocol_version setter, lines 272-275
SetVersion(desired_version) ==
    /\ CanCall
    /\ IF ~can_change_protocol_version THEN
            /\ Instant("set_version", "NatNetProtocolError")
            /\ UNCHANGED loc
       ELSE IF current_protocol_version = None THEN
            /\ Instant("set_version", "AttributeError")
            /\ UNCHANGED loc
       ELSE IF VersionNe(truncate(desired_version, 2), truncate(Val(current_protocol_version), 2)) THEN
            /\ Begin("set_version", "pv_bitstream")
            /\ loc' = [NoLoc EXCEPT !.desired = truncate(desired_version, 2),
                                    !.before = current_protocol_version]
       ELSE
            /\ Instant("set_version", "ok")
            /\ UNCHANGED loc
    /\ reqlog' = <<>>
    /\ UNCHANGED <<call, clientVars, netVars, threadVars>>

\* protocol_version setter, lines 276-278 and 285-286
SetSendBitstream ==
    /\ pc = "pv_bitstream"
    /\ \E sent \in BOOLEAN :
       LET sz_command == "Bitstream," \o VersionStr(loc.desired) IN
        IF SendCommandOutcome(sent) # "ok" THEN
            /\ EndOp(SendCommandOutcome(sent))
            /\ loc' = NoLoc
            /\ reqlog' = <<>>
        ELSE IF ReturnCode(NAT_REQUEST, sz_command) >= 0 THEN
            /\ reqlog' = Logged(sz_command)
            /\ pc' = "pv_set"
            /\ UNCHANGED <<op, result, scope, loc>>
        ELSE
            /\ reqlog' = Logged(sz_command)
            /\ EndOp("NatNetProtocolError")
            /\ loc' = NoLoc
    /\ UNCHANGED <<call, clientVars, netVars, threadVars>>

\* protocol_version setter, line 279
SetAssign ==
    /\ pc = "pv_set"
    /\ current_protocol_version' = Some(loc.desired)
    /\ loc' = [loc EXCEPT !.i = 1]
    /\ pc' = "pv_rec"
    /\ UNCHANGED <<call, use_multicast, server_info, command_thread, data_thread, command_socket,
                   data_socket, stop_threads, netVars, threadVars, op, result, scope, reqlog>>

\* protocol_version setter, lines 280-284
SetSendRecovery ==
    /\ pc = "pv_rec"
    /\ \E sent \in BOOLEAN :
        IF SendCommandOutcome(sent) # "ok" THEN
            /\ EndOp(SendCommandOutcome(sent))
            /\ loc' = NoLoc
            /\ reqlog' = <<>>
        ELSE
            /\ reqlog' = Logged(Recovery[loc.i])
            /\ IF loc.i = Len(Recovery)
               THEN EndOp("ok") /\ loc' = NoLoc
               ELSE loc' = [loc EXCEPT !.i = @ + 1] /\ UNCHANGED <<op, pc, result, scope>>
    /\ UNCHANGED <<call, clientVars, netVars, threadVars>>

(* --------------------------- the with statement ----------------------- *)
\* __enter__: self.connect()
WithEnter ==
    /\ pc = "idle"
    /\ scope \in {"out", "left"}
    /\ ConnectStart("entering")

\* The body has completed: __exit__ runs shutdown().
WithLeave ==
    /\ pc = "idle"
    /\ scope = "body"
    /\ op' = "exit" /\ pc' = "sa_chk" /\ result' = "ok" /\ scope' = "exiting"
    /\ UNCHANGED <<call, clientVars, netVars, threadVars, loc, reqlog>>

(* ------------------ the bytes of a request (send_request) ------------- *)
\* A string is the sequence of its code points, a datagram the sequence of
\* its bytes.
\* str.encode("utf-8"), for code points below 0x800
Utf8(cp) == IF cp < 128 THEN <<cp>> ELSE <<192 + (cp \div 64), 128 + (cp % 64)>>

RECURSIVE encode(_)
encode(str) == IF str = <<>> THEN <<>> ELSE Utf8(Head(str)) \o encode(Tail(str))

\* int.to_bytes(2, byteorder="little"), for values below 2^16
to_bytes(n) == <<n % 256, n \div 256>>

\* send_request, lines 158-161: the payload, forced for some command ids
ForcedPayload(command, command_str) ==
    IF command \in {NAT_REQUEST_MODELDEF, NAT_REQUEST_FRAMEOFDATA, NAT_KEEPALIVE} THEN <<>>
    ELSE IF command = NAT_CONNECT THEN <<80, 105, 110, 103>>    \* "Ping"
    ELSE command_str

\* send_request, lines 162-168: the datagram handed to sendto
send_request(command, command_str) ==
    LET payload == ForcedPayload(command, command_str)
        packet_size == Len(payload) + 1
    IN to_bytes(command) \o to_bytes(packet_size) \o encode(payload) \o <<0>>

\* The header as __process_message reads it (lines 140-142): message id,
\* packet size, and the bytes that follow the header.
HeaderId(data) == data[1] + 256 * data[2]
HeaderSize(data) == data[3] + 256 * data[4]
Body(data) == SubSeq(data, 5, Len(data))

\* Command ids and command strings the application passes to send_request:
\* strings of "A" (U+0041) and "e acute" (U+00E9).
Commands ==
    {NAT_CONNECT, NAT_REQUEST, NAT_REQUEST_MODELDEF, NAT_REQUEST_FRAMEOFDATA, NAT_KEEPALIVE}
CodePoints == {65, 233}
Payloads == UNION {[1..n -> CodePoints] : n \in 0..MaxPayload}

Call(fn, args) == [fn |-> fn, args |-> args, out |-> <<>>, done |-> FALSE]

SendRequestCalls == {Call("send_request", <<c, p>>) : c \in Commands, p \in Payloads}

\* The application calls send_request(command, command_str).
SendRequestCall ==
    /\ call.fn = "send_request" /\ ~call.done
    /\ call' = [call EXCEPT !.out = send_request(call.args[1], call.args[2]), !.done = TRUE]
    /\ UNCHANGED <<clientVars, netVars, threadVars, callerVars>>

(* -------------------------- Version comparison ------------------------ *)
\* Versions of 1 to MaxComponents components.
Versions == UNION {[1..n -> 0..MaxComponent] : n \in 1..MaxComponents}

CompareCalls == {Call("compare", <<a, b, c>>) : a \in Versions, b \in Versions, c \in Versions}

\* The application evaluates a <= b, b <= c, a <= c and a == b.
CompareCall ==
    /\ call.fn = "compare" /\ ~call.done
    /\ LET a == call.args[1]
           b == call.args[2]
           c == call.args[3]
       IN call' = [call EXCEPT !.out = [le_ab |-> VersionLe(a, b), le_bc |-> VersionLe(b, c),
                                         le_ac |-> VersionLe(a, c), eq_ab |-> VersionEq(a, b)],
                                !.done = TRUE]
    /\ UNCHANGED <<clientVars, netVars, threadVars, callerVars>>

(* ------------------------- decoding a packet body -------------------- *)
\* A packet body is the sequence of its 32-bit words.  One word stands for
\* the frame prefix, for the frame suffix, for every element of a section
\* of a frame and for the body of every dataset of a description packet,
\* whatever their sizes are at the protocol version.

\* fields(DataFrame), in declaration order
Fields ==
    <<"prefix", "marker_sets", "unlabeled_marker_pos", "rigid_bodies", "skeletons",
      "labeled_markers", "force_plates", "devices", "suffix">>

FieldNames == {Fields[i] : i \in 1..Len(Fields)}

\* DataFrame.MIN_VERSIONS
MIN_VERSIONS ==
    [prefix |-> <<0>>, marker_sets |-> <<0>>, unlabeled_marker_pos |-> <<0>>,
     rigid_bodies |-> <<0>>, skeletons |-> <<2, 1>>, labeled_markers |-> <<2, 3>>,
     force_plates |-> <<2, 9>>, devices |-> <<2, 11>>, suffix |-> <<0>>]

\* DataFrame.read_from_buffer, line 256: the fields whose type is a
\* PacketComponent; the others are tuples.
IsComponent(name) == name \in {"prefix", "suffix"}

ShortRead == [err |-> "struct.error", kwargs |-> <<>>, pointer |-> 0]

\* DataFrame.read_from_buffer, lines 254-268, from field i on; present[name]
\* is the outcome of the comparison of line 255 for the field.
RECURSIVE ReadFields(_, _, _, _, _)
ReadFields(buffer, present, i, pointer, kwargs) ==
    IF i > Len(Fields) THEN [err |-> "ok", kwargs |-> kwargs, pointer |-> pointer]
    ELSE IF ~present[Fields[i]] THEN ReadFields(buffer, present, i + 1, pointer, kwargs)
    ELSE IF pointer > Len(buffer) THEN ShortRead
    ELSE IF IsComponent(Fields[i]) THEN
        ReadFields(buffer, present, i + 1, pointer + 1,
                   [kwargs EXCEPT ![Fields[i]] = Some(<<buffer[pointer]>>)])
    ELSE
        LET element_count == buffer[pointer] IN
        IF pointer + element_count > Len(buffer) THEN ShortRead
        ELSE ReadFields(buffer, present, i + 1, pointer + 1 + element_count,
                        [kwargs EXCEPT ![Fields[i]] =
                            Some(SubSeq(buffer, pointer + 1, pointer + element_count))])

\* DataFrame.read_from_buffer: a field is read if
\* protocol_version >= MIN_VERSIONS[field.name], and None otherwise.
DataFrame_read_from_buffer(buffer, protocol_version) ==
    ReadFields(buffer, [n \in FieldNames |-> VersionGe(protocol_version, MIN_VERSIONS[n])],
               1, 1, [n \in FieldNames |-> None])

\* DataDescriptions.read_from_buffer, line 192: data_type in data_desc_types
KnownType(data_type) == data_type \in 0..5

\* DataDescriptions.read_from_buffer, lines 190-198, from dataset i on: the
\* datasets decoded so far, each with its type, and the warnings printed.
RECURSIVE ReadDatasets(_, _, _, _, _, _, _)
ReadDatasets(buffer, ver, i, dataset_count, pointer, items, warnings) ==
    IF i > dataset_count
    THEN [err |-> "ok", items |-> items, warnings |-> warnings, pointer |-> pointer]
    ELSE IF pointer > Len(buffer)
    THEN [err |-> "struct.error", items |-> items, warnings |-> warnings, pointer |-> pointer]
    ELSE IF ~KnownType(buffer[pointer])
    THEN ReadDatasets(buffer, ver, i + 1, dataset_count, pointer + 1, items, warnings + 1)
    ELSE IF ItemComparesVersion(buffer[pointer]) /\ ver = None
    THEN [err |-> "TypeError", items |-> items, warnings |-> warnings, pointer |-> pointer + 1]
    ELSE IF pointer + 1 > Len(buffer)
    THEN [err |-> "struct.error", items |-> items, warnings |-> warnings, pointer |-> pointer + 1]
    ELSE ReadDatasets(buffer, ver, i + 1, dataset_count, pointer + 2,
                      Append(items, <<buffer[pointer], buffer[pointer + 1]>>), warnings)

\* DataDescriptions.read_from_buffer
DataDescriptions_read_from_buffer(buffer, protocol_version) ==
    IF buffer = <<>>
    THEN [err |-> "struct.error", items |-> <<>>, warnings |-> 0, pointer |-> 1]
    ELSE ReadDatasets(buffer, protocol_version, 1, buffer[1], 2, <<>>, 0)

\* Wire versions at which a frame is decoded.
FrameVersions ==
    {<<1>>, <<2>>, <<2, 0>>, <<2, 1>>, <<2, 3>>, <<2, 9>>, <<2, 11>>, <<2, 11, 0>>,
     <<3>>, <<3, 0, 0, 0>>, <<3, 1, 0, 0>>, <<4, 0, 0, 0>>}

\* Frame packet bodies: every word is a count of 0 or 1.
FrameBuffers == UNION {[1..n -> 0..1] : n \in 5..MaxWords}

FrameCalls == {Call("frame", <<b, v>>) : b \in FrameBuffers, v \in FrameVersions}

\* Description packet bodies: dataset_count, then words that are the type of
\* a marker set (0), the type of a camera (5) or no type of a dataset (9).
DescWords == {0, 5, 9}
DescBuffers ==
    {<<n>> \o w : n \in 0..MaxDatasets, w \in [1..(2 * MaxDatasets) -> DescWords]}

DescCalls == {Call("descriptions", <<b, V31>>) : b \in DescBuffers}

\* The application calls DataFrame.read_from_buffer(buffer, protocol_version).
FrameCall ==
    /\ call.fn = "frame" /\ ~call.done
    /\ call' = [call EXCEPT !.out = DataFrame_read_from_buffer(call.args[1], call.args[2]),
                             !.done = TRUE]
    /\ UNCHANGED <<clientVars, netVars, threadVars, callerVars>>

\* The application calls DataDescriptions.read_from_buffer(buffer, protocol_version).
DescCall ==
    /\ call.fn = "descriptions" /\ ~call.done
    /\ call' = [call EXCEPT !.out = DataDescriptions_read_from_buffer(call.args[1], call.args[2]),
                             !.done = TRUE]
    /\ UNCHANGED <<clientVars, netVars, threadVars, callerVars>>

(* ----------------------------- PacketBuffer ---------------------------- *)
\* A PacketBuffer is a record of its bytes (data) and its pointer, a byte
\* index from 0; the byte at index i is data[i + 1].  The bytes are NUL (0)
\* and "A" (65).

\* bytes.partition(b"\0")[0]: the bytes before the first NUL, all of them
\* if there is none
RECURSIVE partition(_)
partition(bytes) ==
    IF bytes = <<>> \/ Head(bytes) = 0 THEN <<>> ELSE <<Head(bytes)>> \o partition(Tail(bytes))

\* A slice data[a:b] of Python, clipped to the data
Slice(data, a, b) == SubSeq(data, Min(a, Len(data)) + 1, Min(b, Len(data)))

\* read_string(max_length, static_length), lines 14-26; max_length is None
\* or Some(n).  The result is the decoded string and the buffer's new pointer.
read_string(buffer, max_length, static_length) ==
    LET data_slice == IF max_length = None
                      THEN Slice(buffer.data, buffer.pointer, Len(buffer.data))
                      ELSE Slice(buffer.data, buffer.pointer, buffer.pointer + Val(max_length))
        str_enc == partition(data_slice)
    IN [exc |-> None, value |-> str_enc,
        pointer |-> IF static_length THEN buffer.pointer + Val(max_length)
                    ELSE buffer.pointer + Len(str_enc) + 1]

\* read(data_type), lines 28-33, for a data_type of size bytes: unpack_from
\* raises struct.error when fewer than size bytes follow the pointer.
read(buffer, size) ==
    IF Len(buffer.data) - buffer.pointer < size
    THEN [exc |-> Some("struct.error"), value |-> <<>>, pointer |-> buffer.pointer]
    ELSE [exc |-> None, value |-> Slice(buffer.data, buffer.pointer, buffer.pointer + size),
          pointer |-> buffer.pointer + size]

\* The sizes of the formats the typed reads pass to read (lines 35-51):
\* "H", "I", "L", "f" and "d"; read_float32_array(count) passes "f" * count.
StructSize ==
    [read_uint16 |-> 2, read_uint32 |-> 4, read_uint64 |-> 8, read_float32 |-> 4,
     read_float64 |-> 8]

\* Buffers a decoder can hold: at most MaxBytes bytes, the pointer inside.
Buffers ==
    {[data |-> d, pointer |-> p] :
        d \in UNION {[1..n -> {0, 65}] : n \in 0..MaxBytes}, p \in 0..MaxBytes}

\* The reads a decoder calls: a typed read, read_float32_array(count), or
\* read_string in one of its three forms.
BufferCalls ==
    LET held == {b \in Buffers : b.pointer <= Len(b.data)} IN
        {Call("read", <<b, n>>) : b \in held, n \in DOMAIN StructSize}
        \cup {Call("read_float32_array", <<b, c>>) : b \in held, c \in 0..1}
        \cup {Call("read_string", <<b, None, FALSE>>) : b \in held}
        \cup {Call("read_string", <<b, Some(n), s>>) :
                b \in held, n \in 1..MaxString, s \in BOOLEAN}

\* A decoder calls one of the typed reads.
ReadCall ==
    /\ call.fn \in {"read", "read_float32_array"} /\ ~call.done
    /\ LET buffer == call.args[1]
           size == IF call.fn = "read_float32_array"
                   THEN StructSize.read_float32 * call.args[2]
                   ELSE StructSize[call.args[2]]
       IN call' = [call EXCEPT !.out = read(buffer, size), !.done = TRUE]
    /\ UNCHANGED <<clientVars, netVars, threadVars, callerVars>>

\* A decoder calls read_string in one of its three forms.
StringCall ==
    /\ call.fn = "read_string" /\ ~call.done
    /\ call' = [call EXCEPT !.out = read_string(call.args[1], call.args[2], call.args[3]),
                             !.done = TRUE]
    /\ UNCHANGED <<clientVars, netVars, threadVars, callerVars>>

(* ---------------------------- specification --------------------------- *)
CallerStep ==
    \/ Connect \/ ConnectCreateData \/ ConnectCreateCommand \/ ConnectSend
    \/ ConnectLoop \/ ConnectPolled \/ ConnectCheck \/ CallerRaise
    \/ Shutdown \/ StopAsync \/ StopCheck \/ JoinCommand \/ JoinData \/ StopDrop
    \/ ShutdownClose
    \/ RunAsync \/ StartData \/ StartCommand
    \/ UpdateSync \/ SyncData \/ SyncCommand
    \/ \E c \in CommandStrings : SendCommand(c)
    \/ RequestModeldef
    \/ \E v \in DesiredVersions : SetVersion(v)
    \/ SetSendBitstream \/ SetAssign \/ SetSendRecovery

ThreadStep(t) ==
    \/ PsKeepAlive(t) \/ PsRecv(t) \/ PsMessage(t) \/ PsSetVersion(t)
    \/ PsHandlerStart(t) \/ PsHandlerReturn(t)

WorkerStep(t) == WorkerLoop(t) \/ WorkerRaise(t)

Next ==
    \/ CallerStep
    \/ \E t \in Threads : ThreadStep(t)
    \/ \E t \in Workers : WorkerStep(t)
    \/ \E s \in Sockets, d \in Datagrams : Arrive(s, d)

Spec == Init /\ [][Next]_vars

\* Fair scheduling: every thread that can take a step eventually takes one
\* (a worker's receive times out, a handler returns), and so does the caller
\* inside stop_async().
FairSpec ==
    /\ Spec
    /\ \A t \in Workers : WF_vars(WorkerStep(t) \/ ThreadStep(t))
    /\ WF_vars(StopCheck \/ JoinCommand \/ JoinData \/ StopDrop)

\* The client after connect() has returned: the state connect() leaves when
\* the server answers CONNECT with a SERVERINFO before any other datagram.
StreamInit ==
    /\ use_multicast \in BOOLEAN
    /\ \E v \in {V31, V40} :
        /\ server_info = Some(ServerInfoRead(ServerInfoDgram(v)))
        /\ current_protocol_version = Some(v)
    /\ command_thread = NoId
    /\ data_thread = NoId
    /\ data_socket = 1
    /\ command_socket = 2
    /\ stop_threads = FALSE
    /\ sockOpen = {1, 2}
    /\ queue = [s \in Sockets |-> <<>>]
    /\ arrivals = 0
    /\ delivered = [s \in Sockets |-> 0]
    /\ timeout = [s \in Sockets |-> "0.0"]
    /\ worker = [t \in Workers |-> NoWorker]
    /\ ps = [t \in Threads |-> IdleFrame]
    /\ op = "connect"
    /\ pc = "idle"
    /\ result = "ok"
    /\ scope = "out"
    /\ loc = NoLoc
    /\ reqlog = <<>>
    /\ call = NoCall

StreamSpec == StreamInit /\ [][Next]_vars

\* The client after shutdown() has returned: the state shutdown() leaves when
\* it is called on a client that never connected, or after connect() to a
\* server that advertises protocol 4.0.
ClosedInit ==
    /\ use_multicast \in BOOLEAN
    /\ server_info = None
    /\ current_protocol_version \in {None, Some(V40)}
    /\ command_thread = NoId
    /\ data_thread = NoId
    /\ command_socket = NoId
    /\ data_socket = NoId
    /\ stop_threads = FALSE
    /\ sockOpen = {}
    /\ queue = [s \in Sockets |-> <<>>]
    /\ arrivals = 0
    /\ delivered = [s \in Sockets |-> 0]
    /\ timeout = [s \in Sockets |-> "0.0"]
    /\ worker = [t \in Workers |-> NoWorker]
    /\ ps = [t \in Threads |-> IdleFrame]
    /\ op = "shutdown"
    /\ pc = "idle"
    /\ result = "ok"
    /\ scope = "out"
    /\ loc = NoLoc
    /\ reqlog = <<>>
    /\ call = NoCall

ClosedSpec == ClosedInit /\ [][Next]_vars

\* The client used through the with statement as well.
\* The application assigns protocol_version on a connected client, any
\* Version of 1 to 4 components with major 3 or 4 and the others 0 or 1.
RequestedVersions ==
    {<<m>> \o r : m \in 3..4, r \in UNION {[1..n -> 0..1] : n \in 0..(MaxComponents - 1)}}

SetterSpec ==
    /\ StreamInit
    /\ [][\/ \E desired_version \in RequestedVersions : SetVersion(desired_version)
          \/ SetSendBitstream \/ SetAssign \/ SetSendRecovery]_vars

\* The client on a network where a receive can fail.
NetErrSpec == Init /\ [][Next \/ \E t \in Threads : PsRecvError(t)]_vars

ScopedNext == Next \/ WithEnter \/ WithLeave

ScopedSpec == Init /\ [][ScopedNext]_vars

\* The functions of the package that need no connected client, each called
\* once on arguments drawn from the sets above.
CallInit ==
    /\ NewClient
    /\ call \in (SendRequestCalls \cup CompareCalls \cup FrameCalls \cup DescCalls
                    \cup BufferCalls)

CallNext ==
    SendRequestCall \/ CompareCall \/ FrameCall \/ DescCall \/ ReadCall \/ StringCall

CallSpec == CallInit /\ [][CallNext]_vars

(* ------------------------------ properties ---------------------------- *)
NoWorkerRunning == \A t \in Workers : worker[t].state # "running"

\* C1 (handshake gate): a message other than SERVERINFO that
\* __process_message handles while the protocol version is unset is dropped:
\* no decoder is run on it and no event is invoked for it.
C1_GateDrops ==
    \A t \in Threads :
        ps[t].gate => ~ps[t].dec /\ ps[t].pc \notin {"call", "handler"}

\* The step with which connect() returns normally.
ConnectReturns ==
    op' = "connect" /\ pc' = "idle" /\ result' = "ok" /\ callerVars' # callerVars

\* connected, with the protocol version the server advertised.
Advertised ==
    /\ connected
    /\ current_protocol_version = Some(Val(server_info).nat_net_protocol_version)

\* C2 as stated: whenever connect() returns normally, connected is true and
\* protocol_version equals the advertised nat_net_protocol_version.
C2_ConnectReturnsAdvertised == [][ConnectReturns => Advertised']_vars

\* C2, amended: in a connect() call that finds the client not connected,
\* with no worker thread running, __server_info becomes set only by the
\* calling thread processing a SERVERINFO from the command socket, to the
\* record decoded from that SERVERINFO; the call returns normally only with
\* __server_info set, and then connected is true and protocol_version equals
\* the advertised nat_net_protocol_version.
C2_Handshake ==
    /\ [][(op = "connect" /\ pc # "idle" /\ NoWorkerRunning
            /\ server_info = None /\ server_info' # None)
          => /\ ps[0].pc = "msg"
             /\ ps[0].sock = command_socket
             /\ ps[0].cur.d.id = NAT_SERVERINFO
             /\ server_info' = Some(ServerInfoRead(ps[0].cur.d))]_vars
    /\ [][(ConnectReturns /\ pc = "c_loop" /\ NoWorkerRunning) => Advertised']_vars

\* connect() has returned after the handshake with a server that advertises
\* protocol 3.1: the version cannot be changed.
C2_Witness ==
    /\ op = "connect" /\ pc = "idle" /\ result = "ok"
    /\ NoWorkerRunning
    /\ server_info = Some(ServerInfoRead(ServerInfoDgram(V31)))
    /\ current_protocol_version = Some(V31)
    /\ connected /\ ~can_change_protocol_version

\* The step with which connect() raises TimeoutError.
ConnectTimesOut ==
    op' = "connect" /\ pc' = "idle" /\ result' = "TimeoutError" /\ pc # "idle"

\* C3 (connect timeout): the timeout check leaves the wait only while no
\* SERVERINFO has been processed, and then into shutdown(); TimeoutError is
\* raised by the last step of that shutdown(), and when it reaches the caller
\* both sockets are closed and unset, server_info is unset and connected is
\* false.
C3_TimeoutShutsDown ==
    /\ [][(pc = "c_chk" /\ pc' # "c_loop" /\ pc' # pc)
          => (server_info = None /\ pc' = "sa_chk")]_vars
    /\ [][ConnectTimesOut
          => /\ pc = "sd_close"
             /\ {command_socket, data_socket} \cap sockOpen' = {}
             /\ command_socket' = NoId /\ data_socket' = NoId
             /\ server_info' = None /\ ~connected']_vars

\* connect() has raised TimeoutError.
C3_Witness ==
    /\ op = "connect" /\ pc = "idle" /\ result = "TimeoutError"
    /\ command_socket = NoId /\ data_socket = NoId /\ sockOpen = {}

\* The state shutdown() leaves.
IsShutDown ==
    /\ NoWorkerRunning /\ ~running_asynchronously
    /\ command_socket = NoId /\ data_socket = NoId /\ sockOpen = {}
    /\ server_info = None /\ ~connected

\* C4 (shutdown): shutdown() called by the application never raises and
\* returns with no worker thread running, running_asynchronously false, both
\* sockets closed and unset, server_info unset and connected false; a
\* shutdown() that runs in such a state changes nothing.
C4_Shutdown ==
    /\ [][(op' = "shutdown" /\ pc' = "idle" /\ pc # "idle")
          => (result' = "ok" /\ IsShutDown')]_vars
    /\ [][(op = "shutdown" /\ pc # "idle" /\ IsShutDown)
          => UNCHANGED <<clientVars, netVars, threadVars>>]_vars

\* shutdown() has returned after asynchronous mode was stopped.
C4_Witness ==
    /\ op = "shutdown" /\ pc = "idle" /\ result = "ok"
    /\ stop_threads /\ IsShutDown

\* C5 (scoped use): once the with statement has finished, whether its body
\* completed, its body raised or __enter__ raised, no socket of the client is
\* open and no worker thread is running.
C5_ScopedUse == scope = "left" => (sockOpen = {} /\ NoWorkerRunning)

\* The step with which the application calls update_sync().
UpdateSyncCalled == pc = "idle" /\ op' = "update_sync" /\ callerVars' # callerVars

\* C6 (mode violation): update_sync() called while running_asynchronously is
\* true ends at once with AssertionError and leaves the sockets, their
\* receive buffers, the client's fields and every thread's calls unchanged;
\* and while the synchronous pump runs, no running worker thread has the
\* socket the pump receives from.
C6_ModeViolation ==
    /\ [][(UpdateSyncCalled /\ running_asynchronously)
          => /\ pc' = "idle" /\ result' = "AssertionError"
             /\ UNCHANGED <<clientVars, netVars, threadVars>>]_vars
    /\ [](pc \in {"us_data", "us_cmd"}
          => \A t \in Workers :
                worker[t].state = "running" => worker[t].sock # ps[0].sock)

\* update_sync() has raised AssertionError while a worker thread is receiving.
C6_Witness ==
    /\ op = "update_sync" /\ pc = "idle" /\ result = "AssertionError"
    /\ running_asynchronously
    /\ \E t \in Workers : worker[t].state = "running" /\ ps[t].pc = "recv"

\* C7 (update_sync drains both sockets): when update_sync() returns and no
\* datagram arrived during the call, every datagram that was queued on the
\* data socket and on the command socket has been received: both receive
\* buffers are empty.
C7_UpdateSyncDrains ==
    [][(op = "update_sync" /\ pc = "us_cmd" /\ pc' = "idle" /\ result' = "ok"
            /\ arrivals = loc.seen)
       => (queue'[data_socket] = <<>> /\ queue'[command_socket] = <<>>)]_vars

\* stop_async() has been called while running asynchronously.
StopRequested == op = "stop_async" /\ pc = "sa_chk" /\ running_asynchronously

\* stop_async() has returned with the thread handles dropped.
StopDone == op = "stop_async" /\ pc = "idle" /\ result = "ok" /\ ~running_asynchronously

\* C8 (worker cancellation): stop_async() called while running
\* asynchronously sets the stop flag first; under fair scheduling it returns,
\* with both handles dropped; it returns only when no worker thread is
\* running; while the handles are dropped no worker thread runs or is inside
\* __process_socket; and run_async() starts its two threads with the stop
\* flag reset, each of them running.
C8_WorkerCancellation ==
    /\ [][(StopRequested /\ pc' # pc) => (stop_threads' /\ pc' = "sa_join_c")]_vars
    /\ StopRequested ~> StopDone
    /\ [][(op' = "stop_async" /\ pc' = "idle" /\ pc # "idle")
          => (result' = "ok" /\ ~running_asynchronously' /\ NoWorkerRunning')]_vars
    /\ [](~running_asynchronously
          => (NoWorkerRunning /\ \A t \in Workers : ps[t].pc = "idle"))
    /\ [][(pc = "ra_data" /\ pc' # pc)
          => (~stop_threads' /\ worker'[data_thread'].state = "running")]_vars
    /\ [][(pc = "ra_cmd" /\ pc' # pc)
          => (~stop_threads' /\ worker'[command_thread'].state = "running")]_vars

\* stop_async() has returned after it stopped the worker threads of a
\* connected client.
C8_Witness == StopDone /\ stop_threads /\ connected /\ arrivals > 0

\* C9 (per-socket ordering): in both modes, the handlers of a datagram start
\* only if it arrived after every datagram of the same socket whose handlers
\* were started before; and while a handler of a socket's datagram runs, no
\* other thread is calling or running a handler for a datagram of that
\* socket.
C9_PerSocketOrder ==
    /\ [][\A t \in Threads :
            (ps[t].pc = "call" /\ ps'[t].pc = "handler")
            => ps[t].cur.seq > delivered[ps[t].sock]]_vars
    /\ [](\A t, u \in Threads :
            (t # u /\ ps[t].pc = "handler" /\ ps[u].pc \in {"call", "handler"})
            => ps[t].sock # ps[u].sock)

\* A worker thread is about to call the handlers for the second datagram of
\* its socket, after the handlers for the first one were called.
C9_Witness ==
    \E t \in Workers :
        /\ worker[t].state = "running"
        /\ ps[t].pc = "call" /\ ps[t].cur.seq = 2
        /\ delivered[ps[t].sock] = 1

\* The command strings of a log of sent NAT_REQUEST commands.
SentStrings(log) == [i \in 1..Len(log) |-> log[i].str]

\* C10 (renegotiation sequence): when the setter, called with Version(3,0) on
\* a unicast client whose server advertises protocol 4.0, returns after it
\* sent the Bitstream command, the NAT_REQUEST strings it sent are exactly
\* "Bitstream,3.0", "TimelinePlay", "TimelinePlay", "TimelineStop",
\* "SetPlaybackCurrentFrame,0", "TimelineStop"; the protocol version was not
\* yet 3.0 when Bitstream was sent and was 3.0 when the first TimelinePlay
\* was sent; and finally protocol_version.truncate(2) == Version(3,0).
C10_Renegotiation ==
    [][(op = "set_version" /\ pc = "pv_rec" /\ pc' = "idle" /\ result' = "ok"
            /\ loc.desired = <<3, 0>>)
       => /\ SentStrings(reqlog') =
                <<"Bitstream,3.0", "TimelinePlay", "TimelinePlay", "TimelineStop",
                  "SetPlaybackCurrentFrame,0", "TimelineStop">>
          /\ VersionNe(truncate(Val(reqlog'[1].ver), 2), <<3, 0>>)
          /\ reqlog'[2].ver = Some(<<3, 0>>)
          /\ VersionEq(truncate(Val(current_protocol_version'), 2), <<3, 0>>)]_vars

\* The step with which the application assigns to protocol_version.
SetterCalled == pc = "idle" /\ op' = "set_version" /\ callerVars' # callerVars

\* C11 (permission to renegotiate): can_change_protocol_version is true
\* exactly when server_info is set, the advertised protocol version has a
\* major component of 4 or more and the transport is unicast; a setter call
\* in any other state raises NatNetProtocolError at once, sends no command
\* and leaves the protocol version, the client's other fields, the sockets
\* and the threads unchanged.
C11_VersionChangePermission ==
    /\ [](can_change_protocol_version
          <=> (/\ server_info # None
               /\ ~use_multicast
               /\ major(Val(server_info).nat_net_protocol_version) >= 4))
    /\ [][(SetterCalled /\ ~can_change_protocol_version)
          => /\ pc' = "idle" /\ result' = "NatNetProtocolError"
             /\ reqlog' = <<>>
             /\ UNCHANGED <<clientVars, netVars, threadVars>>]_vars

\* The setter has raised NatNetProtocolError on a connected unicast client
\* whose server advertises protocol 3.1.
C11_Witness ==
    /\ op = "set_version" /\ pc = "idle" /\ result = "NatNetProtocolError"
    /\ connected /\ ~use_multicast
    /\ server_info = Some(ServerInfoRead(ServerInfoDgram(V31)))
    /\ current_protocol_version = Some(V31)

\* C12 (failed version change): whenever the setter raises, at its call or
\* when sending one of its commands fails, protocol_version has the value it
\* had when the setter was called.
C12_FailureKeepsVersion ==
    [][/\ (SetterCalled /\ pc' = "idle" /\ result' # "ok")
            => UNCHANGED current_protocol_version
       /\ (op = "set_version" /\ pc # "idle" /\ pc' = "idle" /\ result' # "ok")
            => current_protocol_version' = loc.before]_vars

\* C13 (command framing): for every command id and command string, the
\* datagram send_request builds is the command id as u16 little-endian, a
\* body length as u16 little-endian, the UTF-8 payload and one NUL; the body
\* length is the number of payload bytes plus 1, which is the number of bytes
\* that follow the header; the payload is empty for REQUEST_MODELDEF,
\* REQUEST_FRAMEOFDATA and KEEPALIVE and "Ping" for CONNECT.
C13_FramingRoundTrip ==
    (call.fn = "send_request" /\ call.done) =>
        LET command == call.args[1]
            payload == IF command \in {NAT_REQUEST_MODELDEF, NAT_REQUEST_FRAMEOFDATA, NAT_KEEPALIVE}
                       THEN <<>>
                       ELSE IF command = NAT_CONNECT THEN <<80, 105, 110, 103>>
                       ELSE call.args[2]
        IN /\ HeaderId(call.out) = command
           /\ Body(call.out) = encode(payload) \o <<0>>
           /\ HeaderSize(call.out) = Len(encode(payload)) + 1
           /\ HeaderSize(call.out) = Len(Body(call.out))

\* The errors a decoder raises on a malformed packet.
DecodingErrors == {"struct.error"}

\* C14 (per-packet isolation): a decoding error in a received packet never
\* propagates out of update_sync() or connect(), and never ends a worker
\* thread: a worker thread ends only when the stop flag is set or on an error
\* that is no decoding error.
C14_PacketIsolation ==
    /\ [](result \notin DecodingErrors)
    /\ [][\A t \in Workers :
            (worker[t].state = "running" /\ worker'[t].state # "running")
            => ~(ps[t].pc = "exc" /\ ps[t].exc \in DecodingErrors)]_vars

\* C15 (CLOSED is terminal): once shutdown() has completed, whatever the
\* application calls afterwards, connect() included, no socket of the client
\* is open again and connected is never true again.
C15_ClosedIsTerminal == sockOpen = {} /\ ~connected

\* C16 (no state across sessions): after shutdown() has returned, server_info
\* and the protocol version are both unset; and whenever no SERVERINFO of the
\* session has been processed (server_info is unset) the protocol version is
\* unset too, so that the handshake gate is active.
C16_NoStateAcrossSessions ==
    /\ (op = "shutdown" /\ pc = "idle" /\ result = "ok")
            => (server_info = None /\ current_protocol_version = None)
    /\ server_info = None => current_protocol_version = None

\* The operations that require a ready session.
ReadyOps == {"send_command", "request_modeldef", "run_async", "update_sync"}

\* C17 (operations on a client that is not connected): send_command,
\* request_modeldef, run_async and update_sync, called while connected is
\* false, raise NatNetError at once and leave the client's fields, the
\* sockets and the threads unchanged: nothing is sent, received or started.
C17_NotConnected ==
    [][(pc = "idle" /\ ~connected /\ op' \in ReadyOps /\ callerVars' # callerVars)
       => /\ pc' = "idle" /\ result' = "NatNetError"
          /\ UNCHANGED <<clientVars, netVars, threadVars>>]_vars

\* C18 (unknown dataset type): when a description packet holds a type tag
\* outside 0..5, decoding stops there with one warning: the descriptions
\* returned are exactly the datasets before the first unknown tag, and no word
\* after that tag is read; with no unknown tag, all dataset_count datasets
\* are returned and no warning is printed.
C18_UnknownTagStops ==
    (call.fn = "descriptions" /\ call.done /\ call.out.err = "ok") =>
        LET buffer == call.args[1]
            unknown == {j \in 1..buffer[1] : buffer[2 * j] \notin 0..5}
            decoded == IF unknown = {} THEN buffer[1] ELSE LeastOf(unknown) - 1
        IN /\ call.out.items = [j \in 1..decoded |-> <<buffer[2 * j], buffer[2 * j + 1]>>]
           /\ call.out.warnings = IF unknown = {} THEN 0 ELSE 1
           /\ call.out.pointer = IF unknown = {} THEN 2 * decoded + 2 ELSE 2 * decoded + 3

\* The minimum version min exceeds the wire version v.
Exceeds(min, v) == CompareFrom(Pad(min, MaxComponents), Pad(v, MaxComponents), 1) = 1

\* C19 (sections of a frame): for every wire version V of 1 to 4 components,
\* decoding a frame walks the sections in declaration order; a section whose
\* minimum version exceeds V is absent (None, not the empty tuple) and no
\* word is consumed for it; every other variable-length section is present
\* and consumes its count and that many elements.
C19_FrameSections ==
    (call.fn = "frame" /\ call.done) =>
        LET buffer == call.args[1]
            V == call.args[2]
            absent == {n \in FieldNames : Exceeds(MIN_VERSIONS[n], V)}
        IN /\ call.out = ReadFields(buffer, [n \in FieldNames |-> n \notin absent], 1, 1,
                                    [n \in FieldNames |-> None])
           /\ call.out.err = "ok" =>
                \A n \in FieldNames : (call.out.kwargs[n] = None) <=> (n \in absent)

\* C20 (version comparison): for all versions a, b, c of 1 to 4 components,
\* a <= b and b <= c imply a <= c; Version(1) == Version(1,0,0,0); and a == b
\* exactly when the component tuples padded with zeros are equal.
C20_VersionOrder ==
    (call.fn = "compare" /\ call.done) =>
        LET a == call.args[1]
            b == call.args[2]
        IN /\ (call.out.le_ab /\ call.out.le_bc) => call.out.le_ac
           /\ (a = <<1>> /\ b = <<1, 0, 0, 0>>) => call.out.eq_ab
           /\ call.out.eq_ab <=> (Pad(a, MaxComponents) = Pad(b, MaxComponents))

\* C21 (PacketBuffer cursor discipline): a read that succeeds advances the
\* pointer by exactly the width of the field (the size of a typed read, 4 *
\* count of a float array, max_length of a static string, the string's bytes
\* up to and including its NUL otherwise); a read that would overrun the data
\* fails; the pointer only increases, never exceeds the length of the data,
\* and is unchanged by a failed read.
C21_CursorDiscipline ==
    (call.fn \in {"read", "read_float32_array", "read_string"} /\ call.done) =>
        LET data == call.args[1].data
            before == call.args[1].pointer
            after == call.out.pointer
            width == CASE call.fn = "read" ->
                            (CASE call.args[2] \in {"read_uint16"} -> 2
                               [] call.args[2] \in {"read_uint32", "read_float32"} -> 4
                               [] call.args[2] \in {"read_uint64", "read_float64"} -> 8)
                       [] call.fn = "read_float32_array" -> 4 * call.args[2]
                       [] call.fn = "read_string" /\ call.args[3] -> Val(call.args[2])
                       [] call.fn = "read_string" /\ ~call.args[3] -> Len(call.out.value) + 1
        IN /\ call.out.exc = None =>
                /\ after = before + width
                /\ before <= after /\ after <= Len(data)
                /\ (call.fn = "read_string" /\ ~call.args[3]) =>
                       SubSeq(data, before + 1, after) = call.out.value \o <<0>>
           /\ call.out.exc # None => after = before
           /\ before + width > Len(data) => call.out.exc # None

\* C22 (setter truncation): for every requested Version of 1 to 4 components,
\* the setter of a client that may change the version sends
\* "Bitstream,<major>.<minor>", both components present, when the requested
\* major.minor differs from the current one (missing components read as
\* zero), and sends nothing and leaves the version unchanged when it is the
\* same.
C22_SetterTruncates ==
    [][/\ \A v \in RequestedVersions :
            (SetVersion(v) /\ can_change_protocol_version /\ current_protocol_version # None) =>
                IF <<major(v), minor(v)>> # <<major(Val(current_protocol_version)),
                                              minor(Val(current_protocol_version))>>
                THEN pc' = "pv_bitstream"
                ELSE pc' = "idle" /\ reqlog' = <<>> /\ UNCHANGED current_protocol_version
       /\ (pc = "pv_bitstream" /\ Len(reqlog') > Len(reqlog)) =>
            reqlog'[Len(reqlog')].str =
                "Bitstream," \o IntStr(major(loc.desired)) \o "." \o IntStr(minor(loc.desired))
      ]_vars

\* C23 (runtime receive errors): a receive error raised in a worker or in the
\* pump while the stop flag is set is absorbed: no receive ends in OSError
\* leaving __process_socket while stop_threads is set.
C23_StopAbsorbs ==
    [][\A t \in Threads :
        (ps[t].pc = "recv" /\ stop_threads) => ~(ps'[t].pc = "exc" /\ ps'[t].exc = "OSError")
      ]_vars

\* C24 (socket ownership): no two threads are inside a keep-alive send or a
\* receive on the same socket, and a datagram sent by the caller thread
\* (send_command, request_modeldef, the protocol_version setter) never
\* overlaps a keep-alive send or a receive of the command worker.
C24_SocketOwnership ==
    [][/\ \A t, u \in Threads :
            (t # u /\ Alive(t) /\ Alive(u) /\ ps[t].pc \in {"ka", "recv"} /\ ps[u].pc \in {"ka", "recv"})
                => ps[t].sock # ps[u].sock
       /\ (\/ (\E c \in CommandStrings : SendCommand(c)) /\ result' = "ok"
           \/ RequestModeldef /\ result' = "ok"
           \/ (SetSendBitstream \/ SetSendRecovery) /\ Len(reqlog') > Len(reqlog))
          => ~(/\ command_thread # NoId
               /\ worker[command_thread].state = "running"
               /\ ps[command_thread].pc \in {"ka", "recv"})
      ]_vars

\* C25 (server_info written once): while the client is connected no step
\* changes server_info except shutdown(), which unsets it, and the current
\* protocol version is changed only by the handshake inside connect() and by
\* the setter on the caller thread, never by a worker or by update_sync().
C25_ServerInfoWrittenOnce ==
    [][/\ (connected /\ server_info' # server_info) => (pc = "sd_close" /\ server_info' = None)
       /\ (connected /\ current_protocol_version' # current_protocol_version) =>
            \/ pc = "pv_set"
            \/ op = "connect" /\ pc = "c_ps" /\ ps[0].pc = "si2"
      ]_vars

\* C26 (KEEPALIVE on the command path in unicast): a KEEPALIVE is sent only
\* in unicast and only by a thread that receives from the command socket;
\* in unicast every receive attempt on the command socket (command worker,
\* update_sync, connect loop) directly follows the sending of one KEEPALIVE;
\* no other receive attempt follows one.
C26_KeepAliveOnCommandPath ==
    [][\A t \in Threads :
        /\ (Alive(t) /\ ps[t].pc = "ka") => (~use_multicast /\ OnCommandPath(t))
        /\ (Alive(t) /\ ps[t].pc # "recv" /\ ps'[t].pc = "recv") =>
            IF ~use_multicast /\ OnCommandPath(t)'
            THEN ps[t].pc = "ka" /\ SendOutcome = "ok"
            ELSE ps[t].pc # "ka"
      ]_vars

\* The command worker of a unicast client has sent its KEEPALIVE and is at
\* its receive.
C26_Witness ==
    /\ ~use_multicast
    /\ command_thread # NoId
    /\ worker[command_thread].state = "running"
    /\ ps[command_thread].pc = "recv"

\* C27 (keep-alive liveness): while a connected unicast client runs
\* asynchronously and the stop flag is not set, the command worker sends a KEEPALIVE again and
\* again, whatever datagrams arrive: from every such state a state is reached
\* where the command worker has just sent one, or the workers are being
\* stopped.
C27_KeepAliveLiveness ==
    (connected /\ ~use_multicast /\ command_thread # NoId /\ ~stop_threads)
        ~> \/ stop_threads
           \/ command_thread = NoId
           \/ /\ worker[command_thread].state = "running"
              /\ ps[command_thread].pc = "recv"

\* C28 (socket timeout follows mode): the synchronous pump receives only
\* from sockets with timeout 0.0 and a worker only from sockets with timeout
\* 0.1; and whenever no operation is running, both open sockets of the client
\* have timeout 0.1 if it is running asynchronously and 0.0 if it is not.
C28_TimeoutFollowsMode ==
    /\ (pc \in {"us_data", "us_cmd"} /\ ps[0].pc = "recv" /\ ps[0].sock \in sockOpen)
            => timeout[ps[0].sock] = "0.0"
    /\ \A t \in Workers :
        (worker[t].state = "running" /\ ps[t].pc = "recv" /\ ps[t].sock \in sockOpen)
            => timeout[ps[t].sock] = "0.1"
    /\ pc = "idle" =>
        \A s \in {command_socket, data_socket} \cap sockOpen :
            timeout[s] = IF running_asynchronously THEN "0.1" ELSE "0.0"

\* C29 (one worker thread per socket): no two running workers receive from
\* the same socket; run_async() called while running asynchronously starts no
\* thread and changes no handle; and when run_async() starts its first
\* thread, no worker of an earlier run is still running.
C29_OneWorkerPerSocket ==
    /\ [](\A t, u \in Workers :
            (t # u /\ worker[t].state = "running" /\ worker[u].state = "running")
                => worker[t].sock # worker[u].sock)
    /\ [][(running_asynchronously /\ RunAsync)
          => UNCHANGED <<worker, ps, command_thread, data_thread>>]_vars
    /\ [][(pc = "ra_data" /\ pc' # pc) => NoWorkerRunning]_vars

\* Both workers of a run are inside __process_socket, each at the receive
\* on its own socket.
C29_Witness ==
    /\ command_thread # NoId /\ data_thread # NoId
    /\ worker[command_thread].state = "running" /\ ps[command_thread].pc = "recv"
    /\ worker[data_thread].state = "running" /\ ps[data_thread].pc = "recv"
    /\ stop_threads = FALSE

\* C30 (network error during connect): when the creation of either socket
\* fails, connect() raises NatNetNetworkError before CONNECT is sent and the
\* client holds no socket: both socket fields are unset, none of its sockets
\* is open and it is not connected.
C30_ConnectFailureLeavesNothing ==
    [][(op = "connect" /\ pc # "idle" /\ result' = "NatNetNetworkError") =>
        /\ pc \in {"c_data", "c_cmd"}
        /\ command_socket' = NoId /\ data_socket' = NoId
        /\ {command_socket', data_socket'} \cap sockOpen' = {}
        /\ ~connected'
      ]_vars

====
